---- MODULE Spec2Model ----
(***************************************************************************)
(* AIgoTrade: the portfolio ledger (backend/trading/services.py, reached   *)
(* through PortfolioViewSet.buy / sell in backend/trading/views.py) and    *)
(* the price snapshot kept in the Stock table by the market data services. *)
(*                                                                         *)
(* Money is counted in cents, quantities in whole shares, time in ticks.   *)
(***************************************************************************)
EXTENDS Integers, Sequences, FiniteSets, TLC

VARIABLES
    cash_balance,   \* Portfolio.cash_balance of the user's default portfolio (database row)
    total_value,    \* Portfolio.total_value of that row
    invested_amount, \* Portfolio.invested_amount of that row
    holdings,       \* Holding rows of that portfolio, one slot per symbol
    transactions,   \* Transaction rows, in the order they were created
    stocks,         \* Stock rows: current_price, last_price_update, day_change, volume
    pc,             \* where each HTTP request is in the view / TradingService code
    req,            \* each request's arguments and the locals of buy_stock / sell_stock
    service,        \* each request's TradingService: its cached default_portfolio
    result,         \* what the ledger call of each request returned or raised
    before,         \* the ledger rows as they were when the request entered the view
    ncalls,         \* number of requests admitted so far
    now,            \* wall clock (timezone.now())
    last_update,    \* the price update handled last: symbol, source, timestamp, what it replaced
    running,        \* LiveMarketService.running
    connected,      \* LiveMarketService.connected
    subscribed_symbols, \* LiveMarketService.subscribed_symbols
    ws,             \* LiveMarketService.ws: the WebSocketApp created last (0: None)
    sockets,        \* every WebSocketApp and its thread: state, subscribe requests sent on it
    starting,       \* start() in progress: default symbols populate_initial_data has yet to fetch
    loops,          \* live threads of price_update_loop and of ohlc_update_loop
    lifecycle,      \* history of the service: stop() calls, delays slept before reconnecting
    groups,         \* channel layer: the sessions (channels) of each group
    received,       \* price updates each client session was sent
    published,      \* the price update broadcast last and who was joined where at that time
    client,         \* BackgroundWebSocketClient and its TwelveDataWebSocketService
    api_key,        \* whether TWELVEDATA_API_KEY is set in the environment of the process
    cycle,          \* price_update_loop: the "for symbol in self.subscribed_symbols" under way
    market_data,    \* MarketData rows (daily bars) and the batch process_ohlc_data handled last
    portfolios,     \* Portfolio rows of the user: whether the row exists, its is_default
    confirmations   \* the symbols each client session was sent subscription_confirmed for

ledger == <<cash_balance, total_value, invested_amount, holdings, transactions>>
calls  == <<pc, req, service, result, before, ncalls>>
market == <<stocks, now, last_update>>
feedsvc == <<running, connected, subscribed_symbols, ws, sockets, starting, loops, lifecycle>>
channel == <<groups, received, published, confirmations>>
others == <<api_key, cycle, market_data, portfolios>>
live   == <<feedsvc, channel, client, others>>
vars   == <<cash_balance, total_value, invested_amount, holdings, transactions, stocks, pc,
            req, service, result, before, ncalls, now, last_update, running, connected,
            subscribed_symbols, ws, sockets, starting, loops, lifecycle, groups, received,
            published, client, api_key, cycle, market_data, portfolios, confirmations>>

----------------------------------------------------------------------------
(* Bounds of the model *)

MaxCalls == 3       \* requests admitted in one behaviour, served one after the other
MaxConcurrentCalls == 2  \* requests admitted in one behaviour when they overlap
MaxTime  == 2       \* last clock tick
MaxStops == 1       \* stop() calls in one behaviour
MaxDelays == 2      \* reconnection delays remembered since the last successful connection
MaxBars == 3        \* daily bars received in one behaviour
MaxMessages == 4    \* frames on_message handles in one behaviour

(* Program constants *)

InitialCash == 1000000      \* Decimal('10000.00'), the default portfolio's cash

Requests == {"r1", "r2"}
Symbols  == {"AAPL", "MSFT"}        \* the active rows of the Stock table

\* the optional price argument: Python's None, or a number
NoPrice      == [given |-> FALSE, value |-> 0]
GivenPrice(p) == [given |-> TRUE, value |-> p]

FeedSymbols == Symbols \cup {"TSLA"}   \* symbols the upstream may report; TSLA has no Stock row

(* What a price event of the feed may carry: price, change, change_percent, day_volume *)
TickPayloads == {[price |-> 0,     change |-> 0,    change_percent |-> 0,  volume |-> 0],
                 [price |-> 15100, change |-> 100,  change_percent |-> 1,  volume |-> 500]}

(* What the REST price endpoint may answer *)
PollPrices == {0, 15200}

\* the REST price endpoint answers without a price (error status, request limit)
NoAnswer == {0}

(* LiveMarketService.default_symbols: the head of the list, the symbols with a Stock row *)
default_symbols == <<"AAPL", "MSFT">>
DefaultSymbols  == {default_symbols[i] : i \in 1..Len(default_symbols)}

\* symbols a client session may ask for; NFLX is not on the default list
ClientSymbols == {"AAPL", "NFLX"}

\* the days daily bars are dated
Days == {1, 2}

\* a field of a bar that is absent (None, "") and one that is text no number or
\* date can be read from
Missing    == 0
Unparsable == -1

(* The bars a time_series answer may carry; prices in 1/100000, as the upstream
   writes them ("147.22099") *)
BarA(d) == [datetime |-> d, open |-> 15000000, high |-> 15100000, low |-> 14900000,
            close |-> 15050000, volume |-> 500]
BarB(d) == [datetime |-> d, open |-> 14722099, high |-> 14897000, low |-> 14722099,
            close |-> 14878999, volume |-> Missing]
Bars == {BarA(d) : d \in Days} \cup {BarB(d) : d \in Days}
           \cup {[BarA(1) EXCEPT !.close = Missing],
                 [BarA(1) EXCEPT !.datetime = Missing],
                 [BarA(1) EXCEPT !.datetime = Unparsable],
                 [BarA(1) EXCEPT !.close = Unparsable]}

\* the time_series answer carries no values
NoValues == {<< >>}

\* names a user may give a portfolio; the first is the one _get_default_portfolio creates
PortfolioNames == {"Default Portfolio", "Second Portfolio"}

\* client sessions: the channels of the MarketDataConsumer instances
Sessions == {"s1", "s2"}

\* the WebSocketApp objects that can be alive at once: one per start() that took effect
SocketIds == 1..(MaxStops + 1)

\* time.sleep(5) of on_websocket_close, in seconds
ReconnectSleep == 5

(* What a request may carry *)
Quantities == {0, 1, 2}
Prices     == {NoPrice} \cup {GivenPrice(p) : p \in {-15000, 0, 15000, 500000}}
Fees       == {0, 99}
Amounts    == {-5000, 0, 5000}

----------------------------------------------------------------------------
(* Rows and values *)

NoHolding == [exists |-> FALSE, quantity |-> 0, average_cost |-> 0, total_cost |-> 0]

HoldingRow(q, a, t) == [exists |-> TRUE, quantity |-> q, average_cost |-> a, total_cost |-> t]

StockRow(p) == [current_price |-> p, previous_close |-> p, day_change |-> 0,
                day_change_percent |-> 0, volume |-> 0, last_price_update |-> 0]

NoRequest == [op |-> "none", symbol |-> "none", quantity |-> 0, price |-> NoPrice, fees |-> 0,
              amount |-> 0, unit_price |-> 0, total |-> 0, gain_loss |-> 0, holding |-> NoHolding]

NoService == [cash_balance |-> 0, total_value |-> 0, invested_amount |-> 0]

NoResult  == [kind |-> "none", error |-> "none"]

NoSnapshot == [cash_balance |-> 0, holdings |-> [s \in Symbols |-> NoHolding], count |-> 0]

\* a WebSocketApp slot: no object, or one in run_forever (connecting, open), one
\* whose run_forever has ended (closed), one whose close handler sleeps (backoff)
FreeSocket == [state |-> "free", sent |-> {}]
NewSocket  == [state |-> "connecting", sent |-> {}]

(* A text frame of the upstream as on_message gets it.  wire: what json.loads
   makes of the text ("object": a JSON object, "array": JSON that is no object,
   "garbage": no JSON); event, status, symbol: the members of the object;
   rate_limit: the messages member carries the events-per-minute notice *)
NoMessage == [wire |-> "none", event |-> "none", status |-> "none", symbol |-> "none",
              rate_limit |-> FALSE]

Message(wire, event, status, symbol, rate_limit) ==
    [wire |-> wire, event |-> event, status |-> status, symbol |-> symbol,
     rate_limit |-> rate_limit]

Messages ==
    {Message("garbage", "none", "none", "none", FALSE),
     Message("array", "none", "none", "none", FALSE),
     Message("object", "trade", "none", "none", FALSE),
     Message("object", "heartbeat", "none", "none", FALSE),
     Message("object", "price", "none", "AAPL", FALSE),
     Message("object", "status", "reset", "none", FALSE),
     Message("object", "subscribe-status", "ok", "AAPL", FALSE),
     Message("object", "subscribe-status", "error", "AAPL", FALSE),
     Message("object", "message-processing", "none", "none", TRUE)}

\* the last call of subscribe_symbol / unsubscribe_symbol: whether the connection
\* was open, whether a control message went out, the confirmed set before and after
NoCall == [op |-> "none", symbol |-> "none", open |-> FALSE, sent |-> FALSE,
           before |-> {}, after |-> {}]

(* connection_thread: where the thread of _connection_worker is.  "none": no
   live thread; "connecting": in run_forever, handshake pending; "open";
   "closed": run_forever has ended, on_close is about to run; "sleeping": in
   the time.sleep of _handle_reconnection *)
NoClient ==
    [running |-> FALSE, connection_thread |-> "none", connected |-> FALSE,
     reconnect_attempts |-> 0, wait_time |-> 0, close_status_code |-> 0,
     gave_up |-> FALSE, sent |-> {},
     subscribed_symbols |-> {}, cooldown |-> FALSE, during_cooldown |-> {},
     retries |-> 0, handled |-> 0, last_message |-> NoMessage, call |-> NoCall]

\* price_update_loop between two cycles: no iterator over subscribed_symbols.
\* size: len(subscribed_symbols) when the iterator was made; todo: the symbols it
\* has yet to yield; began_with, interest, polled, failed, aborted, finished: the
\* history of the cycle begun last
NoCycle ==
    [state |-> "sleeping", size |-> 0, todo |-> {}, began_with |-> {}, interest |-> {},
     polled |-> {}, failed |-> {}, aborted |-> FALSE, finished |-> FALSE]

\* no MarketData row of a (stock, date), and no bar handled for it
NoBar == [datetime |-> 0, open |-> 0, high |-> 0, low |-> 0, close |-> 0, volume |-> 0]

\* rows: the MarketData rows of each (stock, date); processed: the bar of each
\* (stock, date) that process_ohlc_data got as far as storing last; batch: the
\* answer it handled last; bars: the bars it was handed so far
NoMarketData ==
    [rows      |-> [s \in Symbols |-> [d \in Days |-> << >>]],
     processed |-> [s \in Symbols |-> [d \in Days |-> NoBar]],
     batch     |-> [symbol |-> "none", values |-> << >>],
     bars      |-> 0]

\* a Portfolio row of the user, by name (unique_together user, name)
NoPortfolio == [exists |-> FALSE, is_default |-> FALSE]
PortfolioRow(is_default) == [exists |-> TRUE, is_default |-> is_default]

NoPublish == [symbol |-> "none", price |-> 0, room |-> {}, topic |-> {}, sent_to |-> {},
              copies |-> [s \in Sessions |-> 0]]

NoUpdate == [symbol |-> "none", source |-> "none", timestamp |-> 0, price |-> 0,
             stored_timestamp |-> 0, stored_price |-> 0]

(* The fields of the Transaction model: Model.__init__ raises TypeError for any
   other keyword. *)
TransactionFields == {"id", "portfolio", "stock", "transaction_type", "status", "quantity",
                      "price", "total_amount", "fees", "transaction_date", "notes",
                      "created_at", "updated_at"}

BuyTransactionKwargs  == {"portfolio", "stock", "transaction_type", "quantity", "price",
                          "total_amount", "transaction_date"}

SellTransactionKwargs == {"portfolio", "stock", "transaction_type", "quantity", "price",
                          "total_amount", "gain_loss", "transaction_date"}

\* The row Transaction.objects.create inserts; status and fees are not passed by
\* the service and take the model's defaults.
TransactionRow(type, symbol, quantity, price, total) ==
    [transaction_type |-> type, status |-> "pending", symbol |-> symbol,
     quantity |-> quantity, price |-> price, total_amount |-> total, fees |-> 0]

CreateAccepts(kwargs) == kwargs \subseteq TransactionFields

\* the attributes class TradingService defines; any other name raises AttributeError
TradingServiceMethods == {"__init__", "_get_default_portfolio", "get_portfolio_summary",
                          "buy_stock", "sell_stock", "get_transaction_history",
                          "get_holding_detail"}

\* the quotient cut off after the cent (ROUND_DOWN) instead of rounded
QuantizeDown(n, d) ==
    IF n >= 0 THEN n \div d ELSE -((-n) \div d)

(* Decimal.quantize(Decimal('0.01'), rounding=ROUND_HALF_UP) of n/d, in cents *)
QuantizeHalfUp(n, d) ==
    IF n >= 0 THEN (2 * n + d) \div (2 * d) ELSE -((2 * (-n) + d) \div (2 * d))

(* price given by the caller; else get_stock_detail(symbol)['current_price'], which
   is float(stock.current_price) of the Stock row read again, taken back through
   Decimal(str(...)): a float keeps every decimal of at most 15 significant digits,
   the width of the column, so the value is the row's; the fallback when
   get_stock_detail returns None is the same row's current_price *)
ResolvePrice(symbol, price) ==
    IF ~price.given THEN stocks[symbol].current_price ELSE price.value

(* "if price is None: get_live_market_service()": the first call constructs
   LiveMarketService, whose __init__ reads TWELVEDATA_API_KEY and raises when it
   is not set *)
LiveServiceRaises(price) == ~price.given /\ ~api_key

----------------------------------------------------------------------------
(* The computations of TradingService *)

\* views.py: "if not symbol or quantity <= 0" answers 400 before any service call
ViewRejects(symbol, quantity) == symbol = "" \/ quantity <= 0

\* the Portfolio rows of the user that are marked default
DefaultPortfolios ==
    {name \in PortfolioNames : portfolios[name].exists /\ portfolios[name].is_default}

\* TradingService._get_default_portfolio: the Portfolio row as read at construction
GetDefaultPortfolio == [cash_balance |-> cash_balance, total_value |-> total_value,
                        invested_amount |-> invested_amount]

\* total_cost = price * quantity (buy), total_proceeds = price * quantity (sell)
TotalAmount(price, quantity) == price * quantity

\* the comparison written the wrong way round
InsufficientFundsInverted(total_cost, cached_cash) == total_cost < cached_cash

\* "if total_cost > self.default_portfolio.cash_balance: raise ValueError"
InsufficientFunds(total_cost, cached_cash) == total_cost > cached_cash

\* "self.default_portfolio.cash_balance -= total_cost"
DebitedCash(cached_cash, total_cost) == cached_cash - total_cost

\* "self.default_portfolio.cash_balance += total_proceeds"
CreditedCash(cached_cash, total_proceeds) == cached_cash + total_proceeds

\* new_average_cost = total_invested / total_quantity, quantized to 0.01
NewAverageCost(h, quantity, total_cost) ==
    QuantizeHalfUp(h.average_cost * h.quantity + total_cost, h.quantity + quantity)

\* total_cost carried forward from the stored total_cost instead of being
\* re-based on average_cost * quantity
BoughtHoldingKeepingTotal(h, quantity, price, total_cost) ==
    IF ~h.exists
    THEN HoldingRow(quantity, price, total_cost)
    ELSE HoldingRow(h.quantity + quantity,
                    NewAverageCost(h, quantity, total_cost),
                    h.total_cost + total_cost)

\* Holding.objects.get_or_create(...) and the "if not created" update of buy_stock
BoughtHolding(h, quantity, price, total_cost) ==
    IF ~h.exists
    THEN HoldingRow(quantity, price, total_cost)
    ELSE HoldingRow(h.quantity + quantity,
                    NewAverageCost(h, quantity, total_cost),
                    h.average_cost * h.quantity + total_cost)

\* "if not holding or holding.quantity < quantity: raise ValueError"
InsufficientShares(h, quantity) == ~h.exists \/ h.quantity < quantity

\* "remaining_quantity >= 0": a sold-out holding is kept as an empty row
SoldHoldingKeepingEmptyRow(h, quantity) ==
    IF h.quantity - quantity >= 0
    THEN HoldingRow(h.quantity - quantity, h.average_cost,
                    h.average_cost * (h.quantity - quantity))
    ELSE NoHolding

\* the remaining_quantity branch of sell_stock: shrink the row or delete it
SoldHolding(h, quantity) ==
    IF h.quantity - quantity > 0
    THEN HoldingRow(h.quantity - quantity, h.average_cost,
                    h.average_cost * (h.quantity - quantity))
    ELSE NoHolding

\* gain_loss = total_proceeds - holding.average_cost * quantity
GainLoss(h, quantity, total_proceeds) == total_proceeds - h.average_cost * quantity

Snapshot == [cash_balance |-> cash_balance, holdings |-> holdings,
             count |-> Len(transactions)]

Raised(msg)   == [kind |-> "raised", error |-> msg]
Returned      == [kind |-> "returned", error |-> "none"]
BadRequest    == [kind |-> "http400", error |-> "Valid symbol and quantity are required"]

\* the group MarketDataConsumer.connect joins: f"market_{self.room_name}"
RoomGroup == "market_" \o "market_data"

\* the group broadcast_price_update sends to
BroadcastGroup == "market_data"

\* the group subscribe_to_symbol joins: f"symbol_{symbol}"
SymbolGroup(symbol) == "symbol_" \o symbol

GroupNames == {RoomGroup, BroadcastGroup} \cup {SymbolGroup(symbol) : symbol \in ClientSymbols}

----------------------------------------------------------------------------
(* Initial state: the default portfolio as _get_default_portfolio creates it,
   no holdings, no transactions, the Stock rows at their seeded price. *)

Init ==
    /\ cash_balance = InitialCash
    /\ total_value = 0
    /\ invested_amount = 0
    /\ holdings = [s \in Symbols |-> NoHolding]
    /\ transactions = <<>>
    /\ stocks = [s \in Symbols |-> StockRow(15000)]
    /\ pc = [r \in Requests |-> "idle"]
    /\ req = [r \in Requests |-> NoRequest]
    /\ service = [r \in Requests |-> NoService]
    /\ result = [r \in Requests |-> NoResult]
    /\ before = [r \in Requests |-> NoSnapshot]
    /\ ncalls = 0
    /\ now = 0
    /\ last_update = NoUpdate
    /\ running = FALSE
    /\ connected = FALSE
    /\ subscribed_symbols = {}
    /\ ws = 0
    /\ sockets = [id \in SocketIds |-> FreeSocket]
    /\ starting = <<>>
    /\ loops = [price_update |-> 0, ohlc_update |-> 0]
    /\ lifecycle = [stops |-> 0, stopped |-> FALSE, opened_after_stop |-> FALSE,
                    stocks_at_stop |-> [s \in Symbols |-> StockRow(15000)],
                    delays |-> <<>>]
    /\ groups = [g \in GroupNames |-> {}]
    /\ received = [s \in Sessions |-> {}]
    /\ published = NoPublish
    /\ client = NoClient
    /\ api_key \in BOOLEAN
    /\ cycle = NoCycle
    /\ market_data = NoMarketData
    /\ portfolios = [name \in PortfolioNames |->
                        IF name = "Default Portfolio" THEN PortfolioRow(TRUE) ELSE NoPortfolio]
    /\ confirmations = [s \in Sessions |-> {}]

----------------------------------------------------------------------------
(* PortfolioViewSet.buy / sell: validate, construct TradingService(request.user),
   call the ledger operation.  The get of get_or_create(user, is_default=True)
   raises MultipleObjectsReturned when the user has more than one default row. *)

Enter(r, op, symbol, quantity, price, fees) ==
    /\ pc[r] = "idle"
    /\ ncalls' = ncalls + 1
    /\ req' = [req EXCEPT ![r] = [NoRequest EXCEPT !.op = op, !.symbol = symbol,
                                     !.quantity = quantity, !.price = price, !.fees = fees]]
    /\ before' = [before EXCEPT ![r] = Snapshot]
    /\ IF ViewRejects(symbol, quantity)
       THEN /\ pc' = [pc EXCEPT ![r] = "done"]
            /\ result' = [result EXCEPT ![r] = BadRequest]
            /\ UNCHANGED service
       ELSE IF Cardinality(DefaultPortfolios) > 1
       THEN /\ pc' = [pc EXCEPT ![r] = "done"]
            /\ result' = [result EXCEPT ![r] = Raised("MultipleObjectsReturned")]
            /\ UNCHANGED service
       ELSE /\ pc' = [pc EXCEPT ![r] = "constructed"]
            /\ result' = [result EXCEPT ![r] = NoResult]
            /\ service' = [service EXCEPT ![r] = GetDefaultPortfolio]
    /\ UNCHANGED <<ledger, market, live>>

ViewBuy(r) ==
    \E symbol \in Symbols, quantity \in Quantities, price \in Prices, fees \in Fees :
        Enter(r, "buy", symbol, quantity, price, fees)

ViewSell(r) ==
    \E symbol \in Symbols, quantity \in Quantities, price \in Prices, fees \in Fees :
        Enter(r, "sell", symbol, quantity, price, fees)

(* buy_stock, the "with transaction.atomic()" block: funds check against the
   cached portfolio, debit and save of the portfolio (save() writes every field
   of the cached row), get_or_create of the holding (a new row is inserted here;
   an existing one is changed in memory). *)
BuyAtomic(r) ==
    /\ pc[r] = "constructed" /\ req[r].op = "buy"
    /\ LET a     == req[r]
           price == ResolvePrice(a.symbol, a.price)
           total == TotalAmount(price, a.quantity)
           h     == holdings[a.symbol]
           h2    == BoughtHolding(h, a.quantity, price, total)
       IN IF a.symbol \notin Symbols
          THEN /\ result' = [result EXCEPT ![r] = Raised("Stock not found or inactive")]
               /\ pc' = [pc EXCEPT ![r] = "done"]
               /\ UNCHANGED <<ledger, req, service>>
          ELSE IF LiveServiceRaises(a.price)
          THEN /\ result' = [result EXCEPT ![r] = Raised("TWELVEDATA_API_KEY not found")]
               /\ pc' = [pc EXCEPT ![r] = "done"]
               /\ UNCHANGED <<ledger, req, service>>
          ELSE IF InsufficientFunds(total, service[r].cash_balance)
          THEN /\ result' = [result EXCEPT ![r] = Raised("Insufficient funds")]
               /\ pc' = [pc EXCEPT ![r] = "done"]
               /\ req' = [req EXCEPT ![r].unit_price = price, ![r].total = total]
               /\ UNCHANGED <<ledger, service>>
          ELSE /\ service' = [service EXCEPT ![r].cash_balance =
                                  DebitedCash(service[r].cash_balance, total)]
               /\ cash_balance' = DebitedCash(service[r].cash_balance, total)
               /\ total_value' = service[r].total_value
               /\ invested_amount' = service[r].invested_amount
               /\ holdings' = IF h.exists THEN holdings
                              ELSE [holdings EXCEPT ![a.symbol] = h2]
               /\ req' = [req EXCEPT ![r].unit_price = price, ![r].total = total,
                                     ![r].holding = h2]
               /\ pc' = [pc EXCEPT ![r] = "buy_committed"]
               /\ UNCHANGED <<transactions, result>>
    /\ UNCHANGED <<before, ncalls, market, live>>

(* buy_stock after the atomic block: holding.save() writes the in-memory holding *)
BuySaveHolding(r) ==
    /\ pc[r] = "buy_committed"
    /\ holdings' = [holdings EXCEPT ![req[r].symbol] = req[r].holding]
    /\ pc' = [pc EXCEPT ![r] = "buy_saved"]
    /\ UNCHANGED <<cash_balance, total_value, invested_amount, transactions, req, service,
                   result, before, ncalls, market, live>>

(* buy_stock: Transaction.objects.create(...) and the returned dict *)
BuyCreateTransaction(r) ==
    /\ pc[r] = "buy_saved"
    /\ IF CreateAccepts(BuyTransactionKwargs)
       THEN /\ transactions' = Append(transactions,
                                  TransactionRow("BUY", req[r].symbol, req[r].quantity,
                                                 req[r].unit_price, req[r].total))
            /\ result' = [result EXCEPT ![r] = Returned]
       ELSE /\ result' = [result EXCEPT ![r] = Raised("TypeError")]
            /\ UNCHANGED transactions
    /\ pc' = [pc EXCEPT ![r] = "done"]
    /\ UNCHANGED <<cash_balance, total_value, invested_amount, holdings, req, service,
                   before, ncalls, market, live>>

(* sell_stock, the "with transaction.atomic()" block: holding lookup, shares
   check, credit and save of the portfolio, shrink or delete of the holding. *)
SellAtomic(r) ==
    /\ pc[r] = "constructed" /\ req[r].op = "sell"
    /\ LET a     == req[r]
           h     == holdings[a.symbol]
           price == ResolvePrice(a.symbol, a.price)
           total == TotalAmount(price, a.quantity)
       IN IF a.symbol \notin Symbols
          THEN /\ result' = [result EXCEPT ![r] = Raised("Stock not found or inactive")]
               /\ pc' = [pc EXCEPT ![r] = "done"]
               /\ UNCHANGED <<ledger, req, service>>
          ELSE IF InsufficientShares(h, a.quantity)
          THEN /\ result' = [result EXCEPT ![r] = Raised("Insufficient shares")]
               /\ pc' = [pc EXCEPT ![r] = "done"]
               /\ UNCHANGED <<ledger, req, service>>
          ELSE IF LiveServiceRaises(a.price)
          THEN /\ result' = [result EXCEPT ![r] = Raised("TWELVEDATA_API_KEY not found")]
               /\ pc' = [pc EXCEPT ![r] = "done"]
               /\ UNCHANGED <<ledger, req, service>>
          ELSE /\ service' = [service EXCEPT ![r].cash_balance =
                                  CreditedCash(service[r].cash_balance, total)]
               /\ cash_balance' = CreditedCash(service[r].cash_balance, total)
               /\ total_value' = service[r].total_value
               /\ invested_amount' = service[r].invested_amount
               /\ holdings' = [holdings EXCEPT ![a.symbol] = SoldHolding(h, a.quantity)]
               /\ req' = [req EXCEPT ![r].unit_price = price, ![r].total = total,
                                     ![r].gain_loss = GainLoss(h, a.quantity, total),
                                     ![r].holding = h]
               /\ pc' = [pc EXCEPT ![r] = "sell_committed"]
               /\ UNCHANGED <<transactions, result>>
    /\ UNCHANGED <<before, ncalls, market, live>>

(* sell_stock after the atomic block: Transaction.objects.create(..., gain_loss=...) *)
SellCreateTransaction(r) ==
    /\ pc[r] = "sell_committed"
    /\ IF CreateAccepts(SellTransactionKwargs)
       THEN /\ transactions' = Append(transactions,
                                  TransactionRow("SELL", req[r].symbol, req[r].quantity,
                                                 req[r].unit_price, req[r].total))
            /\ result' = [result EXCEPT ![r] = Returned]
       ELSE /\ result' = [result EXCEPT ![r] = Raised("TypeError")]
            /\ UNCHANGED transactions
    /\ pc' = [pc EXCEPT ![r] = "done"]
    /\ UNCHANGED <<cash_balance, total_value, invested_amount, holdings, req, service,
                   before, ncalls, market, live>>

(* PortfolioViewSet.add_cash: the amount is parsed and TradingService.add_cash is
   looked up on the class; the class defines no such attribute, the lookup raises
   AttributeError before any row is touched and "except Exception" answers 500. *)
ViewAddCash(r) ==
    \E amount \in Amounts :
        /\ pc[r] = "idle"
        /\ "add_cash" \notin TradingServiceMethods
        /\ ncalls' = ncalls + 1
        /\ req' = [req EXCEPT ![r] = [NoRequest EXCEPT !.op = "add_cash", !.amount = amount]]
        /\ before' = [before EXCEPT ![r] = Snapshot]
        /\ result' = [result EXCEPT ![r] = Raised("AttributeError")]
        /\ pc' = [pc EXCEPT ![r] = "done"]
        /\ UNCHANGED <<ledger, service, market, live>>

(* the view answers (200, 400 or 500) and the request is over *)
Respond(r) ==
    /\ pc[r] = "done"
    /\ pc' = [pc EXCEPT ![r] = "idle"]
    /\ req' = [req EXCEPT ![r] = NoRequest]
    /\ service' = [service EXCEPT ![r] = NoService]
    /\ result' = [result EXCEPT ![r] = NoResult]
    /\ before' = [before EXCEPT ![r] = NoSnapshot]
    /\ UNCHANGED <<ledger, ncalls, market, live>>

----------------------------------------------------------------------------
(* The price snapshot: the Stock rows written by the market data services *)

\* LiveMarketService.update_stock_price: the row after the update
UpdatedStock(stock, price, change, change_percent, volume) ==
    [stock EXCEPT !.previous_close = stock.current_price,
                  !.current_price = price,
                  !.day_change = change,
                  !.day_change_percent = change_percent,
                  !.volume = volume,
                  !.last_price_update = now]

\* TwelveDataWebSocketService._update_database on an existing row: last_updated is
\* no field of Stock, so save() writes the price and the volume only
WsUpdatedStock(stock, price, timestamp, day_volume) ==
    [stock EXCEPT !.current_price = price, !.volume = day_volume]

Handled(symbol, source, timestamp, price) ==
    [symbol |-> symbol, source |-> source, timestamp |-> timestamp, price |-> price,
     stored_timestamp |-> IF symbol \in Symbols THEN stocks[symbol].last_price_update ELSE 0,
     stored_price |-> IF symbol \in Symbols THEN stocks[symbol].current_price ELSE 0]

\* channel_layer.group_send(group, ...): the channels the message is handed to
GroupMembers(group) == IF group \in DOMAIN groups THEN groups[group] ELSE {}

\* one copy for every group the session is in, whatever group was sent to
CopiesPerMembership(s, group) == Cardinality({g \in DOMAIN groups : s \in groups[g]})

\* group_send hands one message to each channel of the group, and market_update
\* forwards each message it is handed with one send
Copies(s, group) == IF s \in GroupMembers(group) THEN 1 ELSE 0

(* LiveMarketService.broadcast_price_update, and MarketDataConsumer.market_update
   of every channel of the group, which forwards the message to its client *)
BroadcastPriceUpdate(symbol, price) ==
    /\ received' = [s \in DOMAIN received |->
                      IF Copies(s, BroadcastGroup) > 0
                      THEN received[s] \cup {[symbol |-> symbol, price |-> price]}
                      ELSE received[s]]
    /\ published' = [symbol |-> symbol, price |-> price,
                     room |-> GroupMembers(RoomGroup),
                     topic |-> GroupMembers(SymbolGroup(symbol)),
                     sent_to |-> GroupMembers(BroadcastGroup),
                     copies |-> [s \in DOMAIN received |-> Copies(s, BroadcastGroup)]]

(* LiveMarketService.handle_price_update: a price event of the streaming feed,
   stamped by the upstream with any time up to now; "if symbol and price" the
   Stock row is updated and the update is broadcast *)
FeedTick ==
    \E symbol \in FeedSymbols, tick \in TickPayloads, timestamp \in 0..now :
        /\ last_update' = Handled(symbol, "feed", timestamp, tick.price)
        /\ stocks' = IF tick.price # 0 /\ symbol \in Symbols
                     THEN [stocks EXCEPT ![symbol] =
                              UpdatedStock(stocks[symbol], tick.price, tick.change,
                                           tick.change_percent, tick.volume)]
                     ELSE stocks
        /\ IF tick.price # 0
           THEN BroadcastPriceUpdate(symbol, tick.price)
           ELSE UNCHANGED <<received, published>>
        /\ UNCHANGED <<ledger, calls, client, others, now, feedsvc, groups, confirmations>>

(* LiveMarketService.fetch_latest_price: the answer of the REST price lookup,
   which carries no time of its own and is stamped on arrival; "if price" the
   Stock row is updated, an answer without a price is dropped *)
FetchLatestPrice(symbol, price) ==
    IF price # 0
    THEN /\ last_update' = Handled(symbol, "poll", now, price)
         /\ stocks' = IF symbol \in Symbols
                      THEN [stocks EXCEPT ![symbol] =
                               UpdatedStock(stocks[symbol], price, 0, 0, 0)]
                      ELSE stocks
    ELSE UNCHANGED <<stocks, last_update>>

PollPrice ==
    \E symbol \in Symbols, price \in PollPrices :
        /\ FetchLatestPrice(symbol, price)
        /\ UNCHANGED <<ledger, calls, now, live>>

(* TwelveDataWebSocketService.handle_price_update and _update_database *)
WsTick ==
    \E symbol \in FeedSymbols, tick \in TickPayloads, timestamp \in 0..now :
        /\ last_update' = Handled(symbol, "ws", timestamp, tick.price)
        /\ stocks' = IF tick.price # 0 /\ symbol \in Symbols
                     THEN [stocks EXCEPT ![symbol] =
                              WsUpdatedStock(stocks[symbol], tick.price, timestamp, tick.volume)]
                     ELSE stocks
        /\ UNCHANGED <<ledger, calls, now, live>>

(* time passes *)
ClockTick ==
    /\ now < MaxTime
    /\ now' = now + 1
    /\ UNCHANGED <<ledger, calls, stocks, last_update, live>>

----------------------------------------------------------------------------
(* Daily bars: LiveMarketService.process_ohlc_data and the MarketData table *)

\* the answers of n bars
Batches(n) == [1..n -> Bars]

(* DecimalField(max_digits=15, decimal_places=4): the value the column keeps of a
   price given with five decimals, rounded half to even on the fourth *)
Stored4(v) ==
    LET q == v \div 10
        r == v % 10
    IN  10 * (IF r < 5 THEN q ELSE IF r > 5 THEN q + 1 ELSE q + (q % 2))

\* the fields of the row that get_or_create's defaults and the "if not created"
\* branch both write
StoredBar(value) ==
    [open_price |-> Stored4(value.open), high_price |-> Stored4(value.high),
     low_price |-> Stored4(value.low), close_price |-> Stored4(value.close),
     volume |-> IF value.volume = Missing THEN 0 ELSE value.volume,
     adjusted_close |-> Stored4(value.close)]

\* "if all([date_str, open_price, high_price, low_price, close_price])"
AllPresent(value) ==
    /\ value.datetime # Missing
    /\ value.open # Missing /\ value.high # Missing
    /\ value.low # Missing /\ value.close # Missing

\* Decimal(str(...)) of a price raises decimal.InvalidOperation
DecimalRaises(value) ==
    Unparsable \in {value.open, value.high, value.low, value.close}

\* the row is written only when get_or_create made it
UpsertKeepingFirst(rows, bar) == IF rows = << >> THEN <<bar>> ELSE rows

\* MarketData.objects.get_or_create(stock, date, defaults) and the "if not
\* created" overwrite with save()
Upsert(rows, bar) == IF rows = << >> THEN <<bar>> ELSE [rows EXCEPT ![1] = bar]

(* One turn of "for value in values": a bar with an absent field is passed over,
   so is one whose date strptime cannot read ("except: continue"); an unreadable
   price raises out of the loop into "except Exception" of process_ohlc_data,
   which logs and returns *)
ProcessBar(st, value) ==
    IF st.raised \/ ~AllPresent(value) \/ value.datetime = Unparsable
    THEN st
    ELSE IF DecimalRaises(value)
    THEN [st EXCEPT !.raised = TRUE]
    ELSE [st EXCEPT !.rows[value.datetime] = Upsert(@, StoredBar(value)),
                    !.processed[value.datetime] = value]

RECURSIVE ProcessBars(_, _, _)
ProcessBars(st, values, i) ==
    IF i > Len(values) THEN st
    ELSE ProcessBars(ProcessBar(st, values[i]), values, i + 1)

(* LiveMarketService.process_ohlc_data(symbol, values): nothing for a symbol
   without a Stock row; else every bar of the answer in turn *)
ProcessOhlcData(symbol, values) ==
    IF symbol \notin Symbols \/ values = << >>
    THEN UNCHANGED market_data
    ELSE LET st == ProcessBars([rows |-> market_data.rows[symbol],
                                processed |-> market_data.processed[symbol],
                                raised |-> FALSE], values, 1)
         IN  market_data' = [rows |-> [market_data.rows EXCEPT ![symbol] = st.rows],
                             processed |-> [market_data.processed EXCEPT
                                               ![symbol] = st.processed],
                             batch |-> [symbol |-> symbol, values |-> values],
                             bars |-> market_data.bars + Len(values)]

(* fetch_ohlc_data: the time_series answer of the REST lookup arrives *)
FetchOhlcData ==
    \E symbol \in FeedSymbols, n \in 1..(MaxBars - market_data.bars) :
      \E values \in Batches(n) :
        /\ api_key
        /\ ProcessOhlcData(symbol, values)
        /\ UNCHANGED <<ledger, calls, market, feedsvc, channel, client, api_key, cycle,
                       portfolios>>

----------------------------------------------------------------------------
(* LiveMarketService: start / stop, the streaming connection and its callbacks,
   the two poll loops; MarketDataConsumer: the client sessions *)

\* "if self.running: return" never taken
StartNeverReturnsEarly(is_running) == FALSE

\* start(): "if self.running: return"
StartReturnsEarly(is_running) == is_running

\* "if not self.running": the test the wrong way round
ReconnectsWhenStopped(is_running) == ~is_running

\* on_websocket_close: "if self.running:" sleep and start_websocket again
ReconnectsWhileRunning(is_running) == is_running

\* the slot of the next WebSocketApp object
FreshSocket ==
    CHOOSE id \in SocketIds :
        /\ sockets[id].state = "free"
        /\ \A other \in SocketIds : sockets[other].state = "free" => id <= other

\* self.ws.send(...) goes through: self.ws is a connection that is open
CanSend(opening) == ws # 0 /\ (ws = opening \/ sockets[ws].state = "open")

(* LiveMarketService.start: start_websocket, start_price_updates,
   start_ohlc_updates; populate_initial_data follows, one symbol at a time *)
Start ==
    IF StartReturnsEarly(running)
    THEN UNCHANGED feedsvc
    ELSE /\ \E id \in SocketIds : sockets[id].state = "free"
         /\ running' = TRUE
         /\ sockets' = [sockets EXCEPT ![FreshSocket] = NewSocket]
         /\ ws' = FreshSocket
         /\ loops' = [price_update |-> loops.price_update + 1,
                      ohlc_update |-> loops.ohlc_update + 1]
         /\ starting' = default_symbols
         /\ lifecycle' = [lifecycle EXCEPT !.stopped = FALSE]
         /\ UNCHANGED <<connected, subscribed_symbols>>

(* populate_initial_data: fetch_latest_price and fetch_ohlc_data of the next
   default symbol (start() runs in the event loop, which serves no session until
   it returns) *)
PopulateInitialData(prices, batches) ==
    /\ starting # <<>>
    /\ \E price \in prices : FetchLatestPrice(Head(starting), price)
    /\ \E values \in batches : ProcessOhlcData(Head(starting), values)
    /\ starting' = Tail(starting)
    /\ UNCHANGED <<ledger, calls, client, api_key, cycle, portfolios, now, running, connected, subscribed_symbols, ws, sockets,
                   loops, lifecycle, channel>>

(* LiveMarketService.stop: running = False, self.ws.close(), join(timeout=1) of
   the loop threads (the join returns whether or not the thread has ended) *)
Stop ==
    /\ lifecycle.stops < MaxStops
    /\ running' = FALSE
    /\ sockets' = IF ws # 0 /\ sockets[ws].state \in {"connecting", "open"}
                  THEN [sockets EXCEPT ![ws].state = "closed"]
                  ELSE sockets
    /\ lifecycle' = [lifecycle EXCEPT !.stops = @ + 1, !.stopped = TRUE,
                                      !.opened_after_stop = FALSE,
                                      !.stocks_at_stop = stocks]
    /\ UNCHANGED <<ledger, calls, client, others, market, connected, subscribed_symbols, ws, starting, loops,
                   channel>>

(* on_websocket_open: connected = True and subscribe_symbol of every default
   symbol; subscribe_symbol sends on self.ws *)
OnWebsocketOpen(id) ==
    /\ sockets[id].state = "connecting"
    /\ connected' = TRUE
    /\ sockets' = [i \in SocketIds |->
                     [state |-> IF i = id THEN "open" ELSE sockets[i].state,
                      sent  |-> IF CanSend(id) /\ i = ws
                                THEN sockets[i].sent \cup DefaultSymbols
                                ELSE sockets[i].sent]]
    /\ subscribed_symbols' = IF CanSend(id) THEN subscribed_symbols \cup DefaultSymbols
                             ELSE subscribed_symbols
    /\ lifecycle' = [lifecycle EXCEPT !.delays = <<>>]
    /\ UNCHANGED <<ledger, calls, client, others, market, running, ws, starting, loops, channel>>

(* the connection attempt fails or the open connection is lost: run_forever ends *)
WsLost(id) ==
    /\ sockets[id].state \in {"connecting", "open"}
    /\ sockets' = [sockets EXCEPT ![id].state = "closed"]
    /\ UNCHANGED <<ledger, calls, client, others, market, running, connected, subscribed_symbols, ws, starting,
                   loops, lifecycle, channel>>

(* on_websocket_close, up to the sleep: connected = False; "if self.running"
   the handler sleeps, else the thread of the connection ends *)
OnWebsocketClose(id) ==
    /\ sockets[id].state = "closed"
    /\ connected' = FALSE
    /\ IF ReconnectsWhileRunning(running)
       THEN /\ sockets' = [sockets EXCEPT ![id].state = "backoff"]
            /\ lifecycle' = [lifecycle EXCEPT
                               !.delays = IF Len(@) < MaxDelays
                                          THEN Append(@, ReconnectSleep) ELSE @]
       ELSE /\ sockets' = [sockets EXCEPT ![id] = FreeSocket]
            /\ UNCHANGED lifecycle
    /\ UNCHANGED <<ledger, calls, client, others, market, running, subscribed_symbols, ws, starting, loops,
                   channel>>

(* on_websocket_close, after the sleep: start_websocket creates the next
   WebSocketApp, assigns it to self.ws and starts its thread *)
ReconnectAfterSleep(id) ==
    /\ sockets[id].state = "backoff"
    /\ sockets' = [sockets EXCEPT ![id] = NewSocket]
    /\ ws' = id
    /\ lifecycle' = [lifecycle EXCEPT !.opened_after_stop = @ \/ lifecycle.stopped]
    /\ UNCHANGED <<ledger, calls, client, others, market, running, connected, subscribed_symbols, starting,
                   loops, channel>>

(* LiveMarketService.subscribe_symbol *)
SubscribeSymbol(symbol) ==
    IF connected /\ CanSend(0)
    THEN /\ sockets' = [sockets EXCEPT ![ws].sent = @ \cup {symbol}]
         /\ subscribed_symbols' = subscribed_symbols \cup {symbol}
    ELSE UNCHANGED <<sockets, subscribed_symbols>>

(* price_update_loop: "while self.running" fetch the price of a subscribed
   symbol; the thread ends once it sees running False *)
PriceUpdateLoop(prices) ==
    /\ loops.price_update > 0
    /\ IF running
       THEN /\ \E symbol \in subscribed_symbols, price \in prices :
                  FetchLatestPrice(symbol, price)
            /\ UNCHANGED loops
       ELSE /\ loops' = [loops EXCEPT !.price_update = @ - 1]
            /\ UNCHANGED <<stocks, last_update>>
    /\ UNCHANGED <<ledger, calls, client, others, now, running, connected, subscribed_symbols, ws, sockets,
                   starting, lifecycle, channel>>

\* the symbols the service is asked to follow: the default list and those a
\* session has asked for
Interest ==
    DefaultSymbols \cup {symbol \in ClientSymbols : groups[SymbolGroup(symbol)] # {}}

(* price_update_loop, top of "while self.running": the for statement makes the
   iterator over self.subscribed_symbols; the thread ends once it sees running
   False *)
PollCycleBegin ==
    /\ loops.price_update > 0
    /\ cycle.state = "sleeping"
    /\ IF running
       THEN /\ cycle' = [state |-> "iterating", size |-> Cardinality(subscribed_symbols),
                         todo |-> subscribed_symbols, began_with |-> subscribed_symbols,
                         interest |-> Interest, polled |-> {}, failed |-> {},
                         aborted |-> FALSE, finished |-> FALSE]
            /\ UNCHANGED loops
       ELSE /\ loops' = [loops EXCEPT !.price_update = @ - 1]
            /\ UNCHANGED cycle
    /\ UNCHANGED <<ledger, calls, client, api_key, market_data, portfolios, market, running,
                   connected, subscribed_symbols, ws, sockets, starting, lifecycle, channel>>

(* price_update_loop, one turn of "for symbol in self.subscribed_symbols": the set
   iterator raises RuntimeError when the set has another size than when the
   iterator was made, and "except Exception" ends the cycle (sleep 10); when it
   has no symbol left the cycle ends (sleep 5); else fetch_latest_price of the
   symbol it yields, which catches its own failures *)
PollNext(prices) ==
    /\ cycle.state = "iterating"
    /\ IF Cardinality(subscribed_symbols) # cycle.size
       THEN /\ cycle' = [cycle EXCEPT !.state = "sleeping", !.todo = {},
                                      !.aborted = TRUE, !.finished = TRUE]
            /\ UNCHANGED <<stocks, last_update>>
       ELSE IF cycle.todo = {}
       THEN /\ cycle' = [cycle EXCEPT !.state = "sleeping", !.finished = TRUE]
            /\ UNCHANGED <<stocks, last_update>>
       ELSE \E symbol \in cycle.todo, price \in prices :
                /\ FetchLatestPrice(symbol, price)
                /\ cycle' = [cycle EXCEPT !.todo = @ \ {symbol},
                                          !.polled = @ \cup {symbol},
                                          !.failed = IF price = 0 THEN @ \cup {symbol}
                                                     ELSE @]
    /\ UNCHANGED <<ledger, calls, client, api_key, market_data, portfolios, now, running,
                   connected, subscribed_symbols, ws, sockets, starting, loops, lifecycle,
                   channel>>

(* ohlc_update_loop: "while self.running" fetch_ohlc_data of a subscribed symbol,
   which writes MarketData rows only; the thread ends once it sees running False *)
OhlcUpdateLoop(batches) ==
    /\ loops.ohlc_update > 0
    /\ IF running
       THEN /\ IF subscribed_symbols = {}
               THEN UNCHANGED market_data
               ELSE \E symbol \in subscribed_symbols, values \in batches :
                        ProcessOhlcData(symbol, values)
            /\ UNCHANGED loops
       ELSE /\ loops' = [loops EXCEPT !.ohlc_update = @ - 1]
            /\ UNCHANGED market_data
    /\ UNCHANGED <<ledger, calls, client, api_key, cycle, portfolios, market, running, connected, subscribed_symbols, ws, sockets,
                   starting, lifecycle, channel>>

(* MarketDataConsumer.connect: group_add of the room group, accept, and the
   _start_service task: get_live_market_service().start() *)
ConsumerConnect(s) ==
    /\ starting = <<>>
    /\ s \notin groups[RoomGroup]
    /\ groups' = [groups EXCEPT ![RoomGroup] = @ \cup {s}]
    /\ IF api_key THEN Start ELSE UNCHANGED feedsvc
    /\ UNCHANGED <<ledger, calls, client, others, market, received, published,
                   confirmations>>

(* MarketDataConsumer.disconnect: group_discard of the room group *)
ConsumerDisconnect(s) ==
    /\ starting = <<>>
    /\ s \in groups[RoomGroup]
    /\ groups' = [groups EXCEPT ![RoomGroup] = @ \ {s}]
    /\ UNCHANGED <<ledger, calls, client, others, market, feedsvc, received, published,
                   confirmations>>

(* MarketDataConsumer.subscribe_to_symbol: group_add of the symbol group,
   live_service.subscribe_symbol(symbol), whose result is dropped, and the
   subscription_confirmed message; when get_live_market_service() raises, the
   handler logs and sends nothing *)
ConsumerSubscribe(s, symbol) ==
    /\ starting = <<>>
    /\ s \in groups[RoomGroup]
    /\ groups' = [groups EXCEPT ![SymbolGroup(symbol)] = @ \cup {s}]
    /\ IF api_key
       THEN /\ SubscribeSymbol(symbol)
            /\ confirmations' = [confirmations EXCEPT ![s] = @ \cup {symbol}]
       ELSE UNCHANGED <<sockets, subscribed_symbols, confirmations>>
    /\ UNCHANGED <<ledger, calls, client, others, market, running, connected, ws, starting, loops, lifecycle,
                   received, published>>

(* MarketDataConsumer.unsubscribe_from_symbol: group_discard of the symbol group *)
ConsumerUnsubscribe(s, symbol) ==
    /\ starting = <<>>
    /\ s \in groups[RoomGroup]
    /\ s \in groups[SymbolGroup(symbol)]
    /\ groups' = [groups EXCEPT ![SymbolGroup(symbol)] = @ \ {s}]
    /\ UNCHANGED <<ledger, calls, client, others, market, feedsvc, received, published,
                   confirmations>>

(* on_websocket_message: a price event arrives on an open connection *)
OnWebsocketMessage(id) ==
    /\ sockets[id].state = "open"
    /\ FeedTick

\* the one worker of the serial deployment is free to take a request
Worker == "r1"

(* Requests served one after the other *)
Next ==
    \/ ncalls < MaxCalls /\ ViewBuy(Worker)
    \/ ncalls < MaxCalls /\ ViewSell(Worker)
    \/ ncalls < MaxCalls /\ ViewAddCash(Worker)
    \/ BuyAtomic(Worker)
    \/ BuySaveHolding(Worker)
    \/ BuyCreateTransaction(Worker)
    \/ SellAtomic(Worker)
    \/ SellCreateTransaction(Worker)
    \/ Respond(Worker)

Spec == Init /\ [][Next]_vars

(* Requests served concurrently, each by its own worker *)
NextConcurrent ==
    \/ \E r \in Requests : ncalls < MaxConcurrentCalls /\ ViewBuy(r)
    \/ \E r \in Requests : ncalls < MaxConcurrentCalls /\ ViewSell(r)
    \/ \E r \in Requests : BuyAtomic(r)
    \/ \E r \in Requests : BuySaveHolding(r)
    \/ \E r \in Requests : BuyCreateTransaction(r)
    \/ \E r \in Requests : SellAtomic(r)
    \/ \E r \in Requests : SellCreateTransaction(r)
    \/ \E r \in Requests : Respond(r)

SpecConcurrent == Init /\ [][NextConcurrent]_vars

(* The market data services alone *)
NextFeed ==
    \/ FeedTick
    \/ PollPrice
    \/ WsTick
    \/ ClockTick

SpecFeed == Init /\ [][NextFeed]_vars

(* The life of the feed service: sessions connect and ask for symbols not on the
   default list, the connection is lost and re-established, the service is stopped *)
NextLive ==
    \/ \E s \in Sessions : ConsumerConnect(s)
    \/ \E s \in Sessions : ConsumerDisconnect(s)
    \/ ConsumerSubscribe("s1", "NFLX")
    \/ PopulateInitialData(NoAnswer, NoValues)
    \/ Stop
    \/ \E id \in SocketIds : OnWebsocketOpen(id)
    \/ \E id \in SocketIds : WsLost(id)
    \/ \E id \in SocketIds : OnWebsocketClose(id)
    \/ \E id \in SocketIds : ReconnectAfterSleep(id)
    \/ PriceUpdateLoop(NoAnswer)
    \/ OhlcUpdateLoop(NoValues)

SpecLive == Init /\ [][NextLive]_vars

(* ------------------------------------------------------------------------- *)
(* TwelveDataWebSocketService driven by BackgroundWebSocketClient             *)
(* (backend/trading/websocket_service.py, backend/trading/background_client.py) *)
(* ------------------------------------------------------------------------- *)

max_reconnect_attempts == 5
reconnect_delay == 5
MaxWait == 60
NormalClosure == 1000

(* close_status_code handed to on_close: 0 stands for None (no close frame) *)
CloseCodes == {0, NormalClosure, 1006}

Min(a, b) == IF a < b THEN a ELSE b

RECURSIVE Pow2(_)
Pow2(n) == IF n = 0 THEN 1 ELSE 2 * Pow2(n - 1)

(* BackgroundWebSocketClient.start *)
BackgroundClientStart ==
    /\ api_key
    /\ ~client.running
    /\ client' = [client EXCEPT !.running = TRUE]
    /\ UNCHANGED <<ledger, calls, market, feedsvc, channel, others>>

(* One turn of BackgroundWebSocketClient._run: when the service is not
   connected, _start_connection_thread starts _connection_worker unless a
   connection thread is alive, and the worker calls service.connect() *)
BackgroundClientRun ==
    /\ client.running
    /\ client' = IF ~client.connected /\ client.connection_thread = "none"
                 THEN [client EXCEPT !.connection_thread = "connecting"]
                 ELSE client
    /\ UNCHANGED <<ledger, calls, market, feedsvc, channel, others>>

(* TwelveDataWebSocketService.on_open; subscribe_symbol of every default symbol
   and _start_heartbeat *)
ServiceOnOpen ==
    /\ client.connection_thread = "connecting"
    /\ client' = [client EXCEPT !.connection_thread = "open", !.connected = TRUE,
                                !.reconnect_attempts = 0, !.gave_up = FALSE,
                                !.sent = DefaultSymbols]
    /\ UNCHANGED <<ledger, calls, market, feedsvc, channel, others>>

(* The handshake fails or the open connection ends: run_forever returns and
   hands on_close the status code of the close frame, if there was one *)
ServiceWsLost(code) ==
    /\ client.connection_thread \in {"connecting", "open"}
    /\ ~client.cooldown
    /\ client' = [client EXCEPT !.connection_thread = "closed",
                                !.close_status_code = code, !.sent = {}]
    /\ UNCHANGED <<ledger, calls, market, feedsvc, channel, others>>

(* TwelveDataWebSocketService._handle_reconnection, up to its sleep *)
HandleReconnection(c) ==
    IF c.reconnect_attempts < max_reconnect_attempts
    THEN [c EXCEPT !.reconnect_attempts = @ + 1,
                   !.wait_time = Min(MaxWait, reconnect_delay * Pow2(c.reconnect_attempts)),
                   !.connection_thread = "sleeping"]
    ELSE [c EXCEPT !.gave_up = TRUE, !.connection_thread = "none"]

(* TwelveDataWebSocketService.on_close *)
ServiceOnClose ==
    /\ client.connection_thread = "closed"
    /\ LET c == [client EXCEPT !.connected = FALSE, !.close_status_code = 0]
       IN  client' = IF client.close_status_code # NormalClosure
                     THEN HandleReconnection(c)
                     ELSE [c EXCEPT !.connection_thread = "none"]
    /\ UNCHANGED <<ledger, calls, market, feedsvc, channel, others>>

(* _handle_reconnection after its sleep: connect() *)
ServiceConnectAfterWait ==
    /\ client.connection_thread = "sleeping"
    /\ client' = [client EXCEPT !.connection_thread = "connecting"]
    /\ UNCHANGED <<ledger, calls, market, feedsvc, channel, others>>

\* "except Exception" after "except json.JSONDecodeError": nothing gets out of
\* on_message
CaughtOnlyDecodeError(exception) == exception = "JSONDecodeError"

Caught(exception) == exception \in {"JSONDecodeError", "AttributeError"}

\* json.loads(message) and data.get('event', 'unknown'): what is raised, if anything
Raises(m) ==
    IF m.wire = "garbage" THEN "JSONDecodeError"
    ELSE IF m.wire = "array" THEN "AttributeError"
    ELSE "none"

(* TwelveDataWebSocketService.on_message, what it does to the service: the
   if / elif chain on the event.  subscribe-status: handle_subscribe_status adds a
   confirmed symbol, or _retry_subscription sends the subscribe message again;
   status: handle_status_event (reset clears the set); message-processing:
   _handle_rate_limit sleeps in this thread; an exception that got out of the
   handler would reach on_error, which sets connected = False *)
OnMessage(c, m) ==
    IF Raises(m) # "none"
    THEN IF Caught(Raises(m)) THEN c ELSE [c EXCEPT !.connected = FALSE]
    ELSE IF m.event = "subscribe-status" /\ m.status = "ok"
    THEN [c EXCEPT !.subscribed_symbols = @ \cup {m.symbol}]
    ELSE IF m.event = "subscribe-status" /\ m.status = "error"
    THEN [c EXCEPT !.sent = @ \cup {m.symbol}, !.retries = @ + 1]
    ELSE IF m.event = "status" /\ m.status = "reset"
    THEN [c EXCEPT !.subscribed_symbols = {}]
    ELSE IF m.event = "message-processing" /\ m.rate_limit
    THEN [c EXCEPT !.cooldown = TRUE, !.during_cooldown = {}]
    ELSE c

(* on_message is called by the connection thread for the next frame; a price
   event goes to handle_price_update and _update_database *)
ServiceOnMessage(messages) ==
    \E m \in messages :
        /\ client.connection_thread = "open"
        /\ ~client.cooldown
        /\ client.handled < MaxMessages
        /\ client' = [OnMessage(client, m) EXCEPT !.handled = @ + 1, !.last_message = m]
        /\ IF Raises(m) = "none" /\ m.event = "price"
           THEN \E tick \in TickPayloads :
                    /\ tick.price # 0
                    /\ last_update' = Handled(m.symbol, "ws", now, tick.price)
                    /\ stocks' = [stocks EXCEPT ![m.symbol] =
                                     WsUpdatedStock(@, tick.price, now, tick.volume)]
           ELSE UNCHANGED <<stocks, last_update>>
        /\ UNCHANGED <<ledger, calls, now, feedsvc, channel, others>>

(* _handle_rate_limit: time.sleep(60) ends, on_message returns *)
ServiceCooldownEnd ==
    /\ client.cooldown
    /\ client' = [client EXCEPT !.cooldown = FALSE]
    /\ UNCHANGED <<ledger, calls, market, feedsvc, channel, others>>

\* self.ws.send(...) of a thread other than the connection's: it goes out on an
\* open connection and raises on any other; kind is noted when the connection
\* thread is in the sleep of _handle_rate_limit
Send(c, kind) ==
    IF c.cooldown THEN [c EXCEPT !.during_cooldown = @ \cup {kind}] ELSE c

(* heartbeat_loop, one turn with the interval elapsed: _send_heartbeat *)
ServiceHeartbeat ==
    /\ client.connected
    /\ client.connection_thread = "open"
    /\ client' = Send(client, "heartbeat")
    /\ UNCHANGED <<ledger, calls, market, feedsvc, channel, others>>

(* BackgroundWebSocketClient.add_symbol: service.subscribe_symbol(symbol) *)
AddSymbol(symbol) ==
    /\ api_key
    /\ LET open == client.connected /\ client.connection_thread = "open"
           c    == IF open THEN [Send(client, "subscribe") EXCEPT !.sent = @ \cup {symbol}]
                   ELSE client
       IN  client' = [c EXCEPT !.call = [op |-> "subscribe", symbol |-> symbol,
                                        open |-> client.connection_thread = "open",
                                        sent |-> open,
                                        before |-> client.subscribed_symbols,
                                        after |-> c.subscribed_symbols]]
    /\ UNCHANGED <<ledger, calls, market, feedsvc, channel, others>>

\* the symbol stays in the set after the unsubscribe message went out
KeepSymbol(symbols, symbol) == symbols

\* self.subscribed_symbols.discard(symbol)
Discard(symbols, symbol) == symbols \ {symbol}

(* BackgroundWebSocketClient.remove_symbol: service.unsubscribe_symbol(symbol) *)
RemoveSymbol(symbol) ==
    /\ api_key
    /\ LET open == client.connected /\ client.connection_thread = "open"
           c    == IF open
                   THEN [Send(client, "unsubscribe") EXCEPT
                            !.subscribed_symbols = Discard(@, symbol)]
                   ELSE client
       IN  client' = [c EXCEPT !.call = [op |-> "unsubscribe", symbol |-> symbol,
                                        open |-> client.connection_thread = "open",
                                        sent |-> open,
                                        before |-> client.subscribed_symbols,
                                        after |-> c.subscribed_symbols]]
    /\ UNCHANGED <<ledger, calls, market, feedsvc, channel, others>>

(* TwelveDataWebSocketService under BackgroundWebSocketClient: the connection, the
   frames of the upstream, the heartbeat thread and the calls of other threads;
   the upstream ends a connection with a close frame, and _run connects again *)
NextClient ==
    \/ BackgroundClientStart
    \/ BackgroundClientRun
    \/ ServiceOnOpen
    \/ ServiceWsLost(NormalClosure)
    \/ ServiceOnClose
    \/ ServiceOnMessage(Messages)
    \/ ServiceCooldownEnd
    \/ ServiceHeartbeat
    \/ AddSymbol("AAPL")
    \/ RemoveSymbol("AAPL")

SpecClient == Init /\ [][NextClient]_vars

(* Both feed connections and the calls that subscribe and unsubscribe: a session
   asks LiveMarketService for a symbol, other threads call add_symbol and
   remove_symbol, the upstream confirms subscriptions *)
NextSubscribe ==
    \/ ConsumerConnect("s1")
    \/ PopulateInitialData(NoAnswer, NoValues)
    \/ \E id \in SocketIds : OnWebsocketOpen(id)
    \/ \E id \in SocketIds : WsLost(id)
    \/ \E id \in SocketIds : OnWebsocketClose(id)
    \/ \E id \in SocketIds : ReconnectAfterSleep(id)
    \/ ConsumerSubscribe("s1", "NFLX")
    \/ BackgroundClientStart
    \/ BackgroundClientRun
    \/ ServiceOnOpen
    \/ ServiceWsLost(NormalClosure)
    \/ ServiceOnClose
    \/ ServiceOnMessage({m \in Messages : m.event = "subscribe-status" /\ m.status = "ok"})
    \/ AddSymbol("AAPL")
    \/ RemoveSymbol("AAPL")

SpecSubscribe == Init /\ [][NextSubscribe]_vars

(* The feed service from its first start() on, never stopped: sessions come and
   go, the connection fails and is lost any number of times, the loops poll *)
NextRunning ==
    \/ \E s \in Sessions : ConsumerConnect(s)
    \/ \E s \in Sessions : ConsumerDisconnect(s)
    \/ ConsumerSubscribe("s1", "NFLX")
    \/ PopulateInitialData(PollPrices, NoValues)
    \/ \E id \in SocketIds : OnWebsocketOpen(id)
    \/ \E id \in SocketIds : WsLost(id)
    \/ \E id \in SocketIds : OnWebsocketClose(id)
    \/ \E id \in SocketIds : ReconnectAfterSleep(id)
    \/ PriceUpdateLoop(PollPrices)
    \/ OhlcUpdateLoop(NoValues)

SpecRunning == Init /\ [][NextRunning]_vars

(* The connections of both feed services while they run: the first session starts
   LiveMarketService, BackgroundWebSocketClient.start starts the other; each
   connection fails or is lost any number of times *)
NextReconnect ==
    \/ ConsumerConnect("s1")
    \/ PopulateInitialData(NoAnswer, NoValues)
    \/ \E id \in SocketIds : OnWebsocketOpen(id)
    \/ \E id \in SocketIds : WsLost(id)
    \/ \E id \in SocketIds : OnWebsocketClose(id)
    \/ \E id \in SocketIds : ReconnectAfterSleep(id)
    \/ BackgroundClientStart
    \/ BackgroundClientRun
    \/ ServiceOnOpen
    \/ \E code \in CloseCodes : ServiceWsLost(code)
    \/ ServiceOnClose
    \/ ServiceConnectAfterWait

SpecReconnect == Init /\ [][NextReconnect]_vars

(* A close handler is straight-line code in the thread of its connection: once
   run_forever has ended it runs, and its sleep ends; the loop of _run is a
   thread of its own that keeps taking turns *)
SpecReconnectFair ==
    /\ SpecReconnect
    /\ \A id \in SocketIds : WF_vars(OnWebsocketClose(id))
    /\ \A id \in SocketIds : WF_vars(ReconnectAfterSleep(id))
    /\ WF_vars(ServiceOnClose)
    /\ WF_vars(ServiceConnectAfterWait)
    /\ WF_vars(BackgroundClientRun)

(* Daily bars: the answers of the time_series lookups, handled one at a time *)
NextBackfill ==
    \/ FetchOhlcData

SpecBackfill == Init /\ [][NextBackfill]_vars

(* The fast poll loop, cycle by cycle, beside the connection of the feed and a
   session that asks for a symbol *)
NextPoll ==
    \/ ConsumerConnect("s1")
    \/ ConsumerSubscribe("s1", "NFLX")
    \/ PopulateInitialData(NoAnswer, NoValues)
    \/ Stop
    \/ \E id \in SocketIds : OnWebsocketOpen(id)
    \/ \E id \in SocketIds : WsLost(id)
    \/ \E id \in SocketIds : OnWebsocketClose(id)
    \/ \E id \in SocketIds : ReconnectAfterSleep(id)
    \/ PollCycleBegin
    \/ PollNext(PollPrices)

SpecPoll == Init /\ [][NextPoll]_vars

----------------------------------------------------------------------------
(* The REST resources of the router: PortfolioViewSet, HoldingViewSet and
   TransactionViewSet are ModelViewSets, so each has create, update,
   partial_update and destroy beside list and retrieve.  A request is served
   when the worker is free, and counts as a call. *)

\* Transaction.STATUS_CHOICES
TransactionStatuses == {"pending", "executed", "cancelled", "failed"}

\* the worker takes one more request of a resource
Served ==
    /\ pc[Worker] = "idle"
    /\ ncalls < MaxCalls
    /\ ncalls' = ncalls + 1

(* POST /portfolios/ {name, is_default}: PortfolioSerializer, perform_create saves
   with user=request.user; a second row of the same name breaks unique_together
   (user, name) and nothing is stored *)
PortfolioCreate(name, is_default) ==
    /\ Served
    /\ portfolios' = IF portfolios[name].exists THEN portfolios
                     ELSE [portfolios EXCEPT ![name] = PortfolioRow(is_default)]
    /\ UNCHANGED <<ledger, pc, req, service, result, before, market, feedsvc, channel,
                   client, api_key, cycle, market_data>>

(* PATCH /portfolios/<pk>/ {is_default}: the serializer sets the field on the row
   and saves it; 404 without the row *)
PortfolioUpdate(name, is_default) ==
    /\ Served
    /\ portfolios' = IF portfolios[name].exists
                     THEN [portfolios EXCEPT ![name].is_default = is_default]
                     ELSE portfolios
    /\ UNCHANGED <<ledger, pc, req, service, result, before, market, feedsvc, channel,
                   client, api_key, cycle, market_data>>

(* PATCH /holdings/<pk>/ {quantity}: HoldingSerializer leaves quantity writable
   and sets no minimum; get_queryset finds the rows with quantity > 0 *)
HoldingUpdate(symbol, quantity) ==
    /\ Served
    /\ holdings' = IF holdings[symbol].exists /\ holdings[symbol].quantity > 0
                   THEN [holdings EXCEPT ![symbol].quantity = quantity]
                   ELSE holdings
    /\ UNCHANGED <<cash_balance, total_value, invested_amount, transactions, pc, req,
                   service, result, before, market, live>>

(* PATCH /transactions/<pk>/ {status}: TransactionSerializer, whose read-only
   fields are id, created_at and updated_at *)
TransactionUpdate(i, status) ==
    /\ Served
    /\ i \in 1..Len(transactions)
    /\ transactions' = [transactions EXCEPT ![i].status = status]
    /\ UNCHANGED <<cash_balance, total_value, invested_amount, holdings, pc, req,
                   service, result, before, market, live>>

(* DELETE /transactions/<pk>/: the row is deleted *)
TransactionDestroy(i) ==
    /\ Served
    /\ i \in 1..Len(transactions)
    /\ transactions' = [k \in 1..(Len(transactions) - 1) |->
                           IF k < i THEN transactions[k] ELSE transactions[k + 1]]
    /\ UNCHANGED <<cash_balance, total_value, invested_amount, holdings, pc, req,
                   service, result, before, market, live>>

(* Buys and sells served one after the other, beside requests on the resources *)
NextApi ==
    \/ ncalls < MaxCalls /\ ViewBuy(Worker)
    \/ ncalls < MaxCalls /\ ViewSell(Worker)
    \/ BuyAtomic(Worker)
    \/ BuySaveHolding(Worker)
    \/ BuyCreateTransaction(Worker)
    \/ SellAtomic(Worker)
    \/ SellCreateTransaction(Worker)
    \/ Respond(Worker)
    \/ \E is_default \in BOOLEAN : PortfolioCreate("Second Portfolio", is_default)
    \/ \E is_default \in BOOLEAN : PortfolioUpdate("Second Portfolio", is_default)
    \/ \E symbol \in Symbols, quantity \in Quantities : HoldingUpdate(symbol, quantity)
    \/ \E i \in 1..MaxCalls, status \in TransactionStatuses : TransactionUpdate(i, status)
    \/ \E i \in 1..MaxCalls : TransactionDestroy(i)

SpecApi == Init /\ [][NextApi]_vars

(* The fan-out: sessions join and leave the topics while price events arrive *)
NextBroadcast ==
    \/ \E s \in Sessions : ConsumerConnect(s)
    \/ \E s \in Sessions : ConsumerDisconnect(s)
    \/ \E s \in Sessions : ConsumerSubscribe(s, "AAPL")
    \/ \E s \in Sessions : ConsumerUnsubscribe(s, "AAPL")
    \/ PopulateInitialData(NoAnswer, NoValues)
    \/ \E id \in SocketIds : OnWebsocketOpen(id)
    \/ \E id \in SocketIds : OnWebsocketMessage(id)

SpecBroadcast == Init /\ [][NextBroadcast]_vars

----------------------------------------------------------------------------
(* Vocabulary of the properties *)

RECURSIVE SumTotalCost(_, _)
SumTotalCost(hs, S) ==
    IF S = {} THEN 0
    ELSE LET s == CHOOSE x \in S : TRUE
         IN hs[s].total_cost + SumTotalCost(hs, S \ {s})

Abs(x) == IF x < 0 THEN -x ELSE x

\* the price the operation of request r trades at
TradePrice(r) == IF req[r].price.given THEN req[r].price.value
                 ELSE stocks[req[r].symbol].current_price

\* request r has gone through the whole view and ledger code
Finished(r) == pc[r] = "done"

\* request r reached the ledger operation (the view did not answer 400)
ReachedLedger(r) == Finished(r) /\ result[r].kind # "http400"

\* the ledger rows are what they were when request r entered
LedgerUnchangedSince(r) ==
    /\ cash_balance = before[r].cash_balance
    /\ holdings = before[r].holdings
    /\ Len(transactions) = before[r].count

\* the operation of request r went past its checks and committed its atomic block
Committed(r) ==
    /\ Finished(r)
    /\ \/ result[r].kind = "returned"
       \/ result[r] = Raised("TypeError")

Quiescent == \A r \in Requests : pc[r] \in {"idle", "done"}

----------------------------------------------------------------------------
\* C1: for every symbol the stored last-update timestamp never decreases, and an
\* update whose timestamp is older than the stored one leaves the stored price
\* unchanged.
C1_MonotoneSnapshot ==
    last_update.symbol \in Symbols =>
        /\ stocks[last_update.symbol].last_price_update >= last_update.stored_timestamp
        /\ last_update.timestamp < last_update.stored_timestamp =>
               stocks[last_update.symbol].current_price = last_update.stored_price

\* C2: a buy whose total cost exceeds the cash balance fails with the
\* insufficient-funds error and leaves cash, every holding and the number of
\* transactions as they were before the call (a buy has a total cost once its
\* price is known: given by the caller or looked up).
C2_InsufficientFundsNoMutation ==
    \A r \in Requests :
        (/\ ReachedLedger(r)
         /\ req[r].op = "buy"
         /\ ~LiveServiceRaises(req[r].price)
         /\ TradePrice(r) * req[r].quantity > before[r].cash_balance)
        => /\ result[r] = Raised("Insufficient funds")
           /\ LedgerUnchangedSince(r)

C2_Witness ==
    \E r \in Requests :
        /\ ReachedLedger(r)
        /\ req[r].op = "buy"
        /\ TradePrice(r) * req[r].quantity > before[r].cash_balance
        /\ result[r] = Raised("Insufficient funds")
        /\ before[r].count > 0

\* The ledger after one operation has run alone from start to end on ledger db.
SerialOutcome(db, a) ==
    LET price == IF a.price.given THEN a.price.value ELSE stocks[a.symbol].current_price
        total == price * a.quantity
        h     == db.holdings[a.symbol]
    IN IF a.quantity <= 0 THEN db
       ELSE IF a.op = "buy"
       THEN IF total > db.cash_balance THEN db
            ELSE [cash_balance |-> db.cash_balance - total,
                  holdings |-> [db.holdings EXCEPT ![a.symbol] =
                      IF ~h.exists THEN HoldingRow(a.quantity, price, total)
                      ELSE HoldingRow(h.quantity + a.quantity,
                               QuantizeHalfUp(h.average_cost * h.quantity + total,
                                              h.quantity + a.quantity),
                               h.average_cost * h.quantity + total)]]
       ELSE IF ~h.exists \/ h.quantity < a.quantity THEN db
            ELSE [cash_balance |-> db.cash_balance + total,
                  holdings |-> [db.holdings EXCEPT ![a.symbol] =
                      IF h.quantity - a.quantity > 0
                      THEN HoldingRow(h.quantity - a.quantity, h.average_cost,
                                      h.average_cost * (h.quantity - a.quantity))
                      ELSE NoHolding]]

InitialLedger == [cash_balance |-> InitialCash, holdings |-> [s \in Symbols |-> NoHolding]]

\* C3: two buy/sell operations that run concurrently on one portfolio, each through
\* its own TradingService, end with the cash balance and holdings of running them
\* one after the other in some order.
C3_Serializable ==
    (/\ ncalls = 2
     /\ \A r \in Requests : Finished(r))
    => LET final == [cash_balance |-> cash_balance, holdings |-> holdings]
       IN \/ final = SerialOutcome(SerialOutcome(InitialLedger, req["r1"]), req["r2"])
          \/ final = SerialOutcome(SerialOutcome(InitialLedger, req["r2"]), req["r1"])

\* C4: buy and sell are each one atomic unit: the cash/holding change of an
\* operation is present if and only if its Transaction was appended and the
\* operation reports success; an operation that ends in failure leaves cash,
\* holdings and transaction history unchanged.
C4_AtomicUnit ==
    \A r \in Requests :
        Finished(r) =>
            /\ result[r].kind = "returned" <=> Len(transactions) = before[r].count + 1
            /\ result[r].kind = "returned" <=>
                   (cash_balance # before[r].cash_balance \/ holdings # before[r].holdings)
            /\ result[r].kind # "returned" => LedgerUnchangedSince(r)

\* C5 (as claimed): after every buy or sell, cash_balance plus the sum of total_cost
\* over the holdings equals the cash balance before the sequence started: each
\* operation, at a positive quantity and price, leaves that sum as it found it.
C5_Conservation ==
    \A r \in Requests :
        (Finished(r) /\ req[r].quantity > 0 /\ TradePrice(r) > 0) =>
            cash_balance + SumTotalCost(holdings, Symbols)
                = before[r].cash_balance + SumTotalCost(before[r].holdings, Symbols)

\* C5 (amended): an operation that commits changes cash_balance + sum(total_cost) by
\* exactly the realized gain of a sell, quantity * (price - average_cost), plus the
\* re-basing of the traded holding, average_cost * quantity - total_cost as stored
\* before the operation; an operation that is refused leaves the sum unchanged.
C5_ConservationUpToRealizedGain ==
    \A r \in Requests :
        (Finished(r) /\ req[r].op \in {"buy", "sell"}) =>
            LET b        == before[r].holdings[req[r].symbol]
                realized == IF req[r].op = "sell"
                            THEN req[r].quantity * (TradePrice(r) - b.average_cost)
                            ELSE 0
                rebased  == b.average_cost * b.quantity - b.total_cost
                change   == (cash_balance + SumTotalCost(holdings, Symbols))
                            - (before[r].cash_balance + SumTotalCost(before[r].holdings, Symbols))
            IN change = IF Committed(r) THEN realized + rebased ELSE 0

C5_Witness ==
    \E r \in Requests :
        /\ Committed(r)
        /\ cash_balance + SumTotalCost(holdings, Symbols) # InitialCash
        /\ LET b == before[r].holdings[req[r].symbol]
           IN /\ b.exists
              /\ b.average_cost * b.quantity # b.total_cost

\* C6: buying q1 at p1 and then q2 at p2 of one instrument yields one holding with
\* quantity q1+q2 and average_cost within half a cent of (q1*p1 + q2*p2)/(q1+q2).
C6_AverageCost ==
    (/\ Quiescent
     /\ ncalls = 2
     /\ Len(transactions) = 2
     /\ transactions[1].symbol = transactions[2].symbol)
    => LET t1 == transactions[1]
           t2 == transactions[2]
           h  == holdings[t1.symbol]
           q  == t1.quantity + t2.quantity
       IN /\ h.exists
          /\ h.quantity = q
          /\ 2 * Abs(h.average_cost * q - (t1.quantity * t1.price + t2.quantity * t2.price)) <= q

C6_Witness ==
    /\ Quiescent
    /\ ncalls = 2
    /\ Len(transactions) = 2
    /\ transactions[1].symbol = transactions[2].symbol
    /\ transactions[1].price # transactions[2].price
    /\ LET t1 == transactions[1]
           t2 == transactions[2]
       IN holdings[t1.symbol].average_cost * (t1.quantity + t2.quantity)
              # t1.quantity * t1.price + t2.quantity * t2.price

\* C7: selling a holding's whole quantity removes the Holding row; selling a smaller
\* positive quantity keeps the row with its average_cost unchanged and its quantity
\* reduced by exactly the quantity sold.
C7_Liquidation ==
    \A r \in Requests :
        (Committed(r) /\ req[r].op = "sell") =>
            LET b == before[r].holdings[req[r].symbol]
                h == holdings[req[r].symbol]
            IN IF req[r].quantity = b.quantity
               THEN ~h.exists
               ELSE /\ h.exists
                    /\ h.average_cost = b.average_cost
                    /\ h.quantity = b.quantity - req[r].quantity

C7_Witness ==
    \E r \in Requests :
        /\ Committed(r)
        /\ req[r].op = "sell"
        /\ before[r].holdings[req[r].symbol].quantity = req[r].quantity
        /\ ~holdings[req[r].symbol].exists

\* C8: a sell of an instrument the portfolio does not hold returns the failure
\* result 'No holding found for this stock', a sell of more than is held returns an
\* InsufficientShares failure; both are returned with success = false, not raised,
\* and nothing is mutated.
C8_StructuredSellFailure ==
    \A r \in Requests :
        (ReachedLedger(r) /\ req[r].op = "sell") =>
            LET b == before[r].holdings[req[r].symbol]
            IN /\ ~b.exists =>
                     /\ result[r] = [kind |-> "failed", error |-> "No holding found for this stock"]
                     /\ LedgerUnchangedSince(r)
               /\ (b.exists /\ req[r].quantity > b.quantity) =>
                     /\ result[r] = [kind |-> "failed", error |-> "Insufficient shares"]
                     /\ LedgerUnchangedSince(r)

\* C9: a buy or sell whose quantity is not positive, or whose caller-supplied price
\* is not positive, is rejected before any mutation.
C9_RejectsNonPositive ==
    \A r \in Requests :
        (/\ Finished(r)
         /\ req[r].op \in {"buy", "sell"}
         /\ \/ req[r].quantity <= 0
            \/ req[r].price.given /\ req[r].price.value <= 0)
        => /\ result[r].kind # "returned"
           /\ LedgerUnchangedSince(r)

\* C10: a successful buy debits the cash balance by exactly quantity*price + fees,
\* a successful sell credits it by exactly quantity*price - fees.
C10_FeesInCash ==
    \A r \in Requests :
        (Finished(r) /\ result[r].kind = "returned") =>
            IF req[r].op = "buy"
            THEN before[r].cash_balance - cash_balance
                     = req[r].quantity * TradePrice(r) + req[r].fees
            ELSE cash_balance - before[r].cash_balance
                     = req[r].quantity * TradePrice(r) - req[r].fees

\* C11: a successful sell of quantity q at price p from a holding with average cost
\* a reports realized gain/loss q*p - a*q, independent of fees: a sell that passed
\* its checks and moved the cash returns, and the gain/loss of its result is that.
C11_ReportsRealizedGain ==
    \A r \in Requests :
        (Committed(r) /\ req[r].op = "sell") =>
            /\ result[r].kind = "returned"
            /\ req[r].gain_loss
                   = req[r].quantity * TradePrice(r)
                       - before[r].holdings[req[r].symbol].average_cost * req[r].quantity

\* C12: every successful buy appends exactly one Transaction for the portfolio,
\* with type 'buy', status 'executed' and the quantity and price of the trade.
C12_BuyTransactionExecuted ==
    \A r \in Requests :
        (Finished(r) /\ req[r].op = "buy" /\ result[r].kind = "returned") =>
            /\ Len(transactions) = before[r].count + 1
            /\ LET t == transactions[Len(transactions)]
               IN /\ t.transaction_type = "buy"
                  /\ t.status = "executed"
                  /\ t.symbol = req[r].symbol
                  /\ t.quantity = req[r].quantity
                  /\ t.price = TradePrice(r)

RECURSIVE SumCostBasis(_, _)
SumCostBasis(hs, S) ==
    IF S = {} THEN 0
    ELSE LET s == CHOOSE x \in S : TRUE
         IN hs[s].average_cost * hs[s].quantity + SumCostBasis(hs, S \ {s})

RECURSIVE SumCurrentValue(_, _)
SumCurrentValue(hs, S) ==
    IF S = {} THEN 0
    ELSE LET s == CHOOSE x \in S : TRUE
         IN hs[s].quantity * stocks[s].current_price + SumCurrentValue(hs, S \ {s})

\* C13: after every successful buy or sell, the portfolio's stored invested_amount
\* equals the sum of the cost bases of its holdings and its stored total_value
\* equals cash_balance plus the sum of the holdings' current values.
C13_StoredAggregates ==
    \A r \in Requests :
        (Finished(r) /\ req[r].op \in {"buy", "sell"} /\ result[r].kind = "returned") =>
            /\ invested_amount = SumCostBasis(holdings, Symbols)
            /\ total_value = cash_balance + SumCurrentValue(holdings, Symbols)

\* C14: addCash with amount > 0 increases the portfolio's cash balance by exactly
\* amount and appends one deposit Transaction with no instrument; addCash with
\* amount <= 0 is rejected and changes nothing.
C14_AddCash ==
    \A r \in Requests :
        (Finished(r) /\ req[r].op = "add_cash") =>
            IF req[r].amount > 0
            THEN /\ cash_balance = before[r].cash_balance + req[r].amount
                 /\ Len(transactions) = before[r].count + 1
                 /\ transactions[Len(transactions)].transaction_type = "deposit"
                 /\ transactions[Len(transactions)].symbol = "none"
            ELSE /\ result[r].kind # "returned"
                 /\ LedgerUnchangedSince(r)

\* the connection self.ws points at is open
StreamOpen == ws # 0 /\ sockets[ws].state = "open"

\* C15: after the feed connection is lost and re-established, a subscribe request
\* is re-issued for every symbol that was subscribed before the loss, including
\* symbols added at run time through subscribe(symbol). The service never removes
\* a symbol from subscribed_symbols, which thus holds what was subscribed before
\* the loss (stated for a service that was never stopped, so that the loss is a
\* loss of the connection).
C15_ResubscribesAll ==
    (lifecycle.stops = 0 /\ connected /\ StreamOpen)
        => subscribed_symbols \subseteq sockets[ws].sent

\* C16: across consecutive failed reconnection attempts since the last successful
\* connection, the delay before attempt number i (counted from 0) is
\* min(maxDelay, baseDelay * 2^i), with the base delay and the cap of
\* _handle_reconnection; the sequence starts again only after a
\* successful connection.
C16_BackoffDelays ==
    \A i \in 1..Len(lifecycle.delays) :
        lifecycle.delays[i] = Min(MaxWait, reconnect_delay * Pow2(i - 1))

\* C17: while the feed service is running, every error or unexpected close of the
\* streaming connection is eventually followed by a new connection attempt, for any
\* number of consecutive failures: in LiveMarketService, and in the
\* TwelveDataWebSocketService that BackgroundWebSocketClient keeps alive.
C17_ReconnectsForever ==
    /\ \A id \in SocketIds :
            (sockets[id].state = "closed" /\ running)
                ~> (sockets[id].state = "connecting" \/ ~running)
    /\ (client.connection_thread = "closed" /\ client.running)
            ~> (client.connection_thread = "connecting" \/ ~client.running)

\* both services are connecting again after as many consecutive failures as the
\* model remembers, the TwelveData service after it had used up its attempts
C17_Witness ==
    /\ running
    /\ Len(lifecycle.delays) = MaxDelays
    /\ \E id \in SocketIds : sockets[id].state = "connecting"
    /\ client.running
    /\ client.gave_up
    /\ client.connection_thread = "connecting"

\* the connections that are being opened or are open
Streaming == {id \in SocketIds : sockets[id].state \in {"connecting", "open"}}

\* C18: start() is idempotent while the service is running: after any number of
\* start() calls, one per client session that connects, there is at most one
\* streaming connection, one fast-poll loop and one slow-poll loop.
C18_StartIdempotent ==
    lifecycle.stops = 0 =>
        /\ Cardinality(Streaming) <= 1
        /\ loops.price_update <= 1
        /\ loops.ohlc_update <= 1

C18_Witness ==
    /\ lifecycle.stops = 0
    /\ groups[RoomGroup] = Sessions
    /\ running
    /\ Cardinality(Streaming) = 1
    /\ loops.price_update = 1
    /\ loops.ohlc_update = 1

\* C19: after stop() is called, the streaming connection is closed and no new
\* connection is opened afterwards (including by a reconnect that was already
\* pending in the close handler), and the stored snapshots are left as they were.
C19_StopIsFinal ==
    lifecycle.stopped =>
        /\ Streaming = {}
        /\ ~lifecycle.opened_after_stop
        /\ stocks = lifecycle.stocks_at_stop

\* C20: every price update published for a symbol is delivered to every session
\* that is currently joined to the global topic and to every session currently
\* joined to that symbol's topic.
C20_DeliveredToTopics ==
    published.symbol # "none" =>
        \A s \in published.room \cup published.topic :
            [symbol |-> published.symbol, price |-> published.price] \in received[s]

\* C25: ledger operations do not fail because of ingestion: a buy or sell with no
\* caller-supplied price does not end with the error of the live market service
\* that could not be constructed.
C25_IngestionInvisible ==
    \A r \in Requests :
        (pc[r] = "done" /\ req[r].op \in {"buy", "sell"} /\ ~req[r].price.given)
            => result[r].error # "TWELVEDATA_API_KEY not found"

\* C21: every update that is applied to the snapshot of a symbol, whether it comes
\* from a feed tick or from a poll result, triggers a publish for that symbol: right
\* after an update was applied to a Stock row, the update published last is that one.
C21_ApplyPublishes ==
    (/\ last_update.source \in {"feed", "poll"}
     /\ last_update.price # 0
     /\ last_update.symbol \in Symbols)
        => (published.symbol = last_update.symbol /\ published.price = last_update.price)

\* C22: for each publish, each session receives the update at most once, and a
\* session that joins a topic after the publish never receives that update (a step
\* that joins a session to a group delivers nothing to it).
C22_AtMostOnce ==
    /\ [](published.symbol # "none" => \A s \in Sessions : published.copies[s] <= 1)
    /\ [][\A s \in Sessions :
            (\E g \in DOMAIN groups : s \in groups'[g] /\ s \notin groups[g])
                => received'[s] = received[s]]_vars

\* an update was published while a session was in the room, and another session
\* has joined the room since
C22_Witness ==
    /\ published.symbol # "none"
    /\ published.room # {}
    /\ \E s \in Sessions : s \in groups[RoomGroup] /\ s \notin published.room

\* a bar with every field present, a date strptime reads and prices Decimal reads
WellFormed(value) ==
    AllPresent(value) /\ value.datetime \in Days /\ ~DecimalRaises(value)

\* C29 (as the column stores it): the backfill is an upsert keyed by (symbol,
\* date): at most one bar is stored per (symbol, date), and its open, high, low,
\* close and volume are those of the bar processed last for that date, with the
\* prices rounded to the four decimals of the column and an absent volume as 0.
C29_UpsertLastWins ==
    \A s \in Symbols, d \in Days :
        /\ Len(market_data.rows[s][d]) <= 1
        /\ (market_data.processed[s][d] = NoBar) <=> (market_data.rows[s][d] = << >>)
        /\ market_data.processed[s][d] # NoBar
              => market_data.rows[s][d] = <<StoredBar(market_data.processed[s][d])>>

\* C29 as stated: the stored open, high, low, close and volume are those of the
\* bar processed last for that (symbol, date).
C29_StoredIsLastBar ==
    \A s \in Symbols, d \in Days :
        market_data.rows[s][d] # << >>
            => LET row == market_data.rows[s][d][1]
                   bar == market_data.processed[s][d]
               IN  /\ row.open_price = bar.open /\ row.high_price = bar.high
                   /\ row.low_price = bar.low /\ row.close_price = bar.close
                   /\ row.volume = bar.volume

\* the answer handled last carried two different bars of one date, and the row
\* of that date is the later one
C29_Witness ==
    /\ market_data.batch.symbol \in Symbols
    /\ Len(market_data.batch.values) = 2
    /\ LET first  == market_data.batch.values[1]
           second == market_data.batch.values[2]
       IN  /\ WellFormed(first) /\ WellFormed(second)
           /\ first.datetime = second.datetime
           /\ StoredBar(first) # StoredBar(second)
           /\ market_data.rows[market_data.batch.symbol][second.datetime]
                 = <<StoredBar(second)>>

\* C30: a bar that is malformed or partial (open, high, low, close or date absent
\* or unparsable) is skipped alone: every well-formed bar of the same batch,
\* before and after it, is stored.
C30_SkipsOnlyMalformed ==
    market_data.batch.symbol \in Symbols
        => \A i \in 1..Len(market_data.batch.values) :
              WellFormed(market_data.batch.values[i])
                  => market_data.rows[market_data.batch.symbol]
                                     [market_data.batch.values[i].datetime] # << >>

\* C23: while the service is running, a poll cycle requests a price for every
\* symbol of the subscription interest, whatever the state of the feed connection
\* (also in backoff and when the feed has never connected): a cycle that ran to
\* its end has polled every symbol that was of interest when it began.
C23_PollsInterest ==
    (cycle.finished /\ ~cycle.aborted) => cycle.interest \subseteq cycle.polled

\* C24: a failure while polling one symbol does not abort the cycle, also when
\* another thread changes the set of subscribed symbols during the cycle: a cycle
\* that has ended has polled every symbol that was subscribed when it began.
C24_CycleNotAborted ==
    cycle.finished => cycle.began_with \subseteq cycle.polled

\* C26: in every reachable state the user has at most one default portfolio, also
\* after a second portfolio of the user was marked as default.
C26_OneDefaultPortfolio == Cardinality(DefaultPortfolios) <= 1

\* C27: in every reachable state every existing Holding of the portfolio (one row
\* at most per instrument, by unique_together) has a quantity above zero.
C27_HoldingsPositive ==
    \A symbol \in Symbols : holdings[symbol].exists => holdings[symbol].quantity > 0

\* C28: the transaction history is append-only: no step changes or removes a
\* Transaction row that exists.
C28_AppendOnly ==
    [][/\ Len(transactions') >= Len(transactions)
       /\ \A i \in 1..Len(transactions) : transactions'[i] = transactions[i]]_vars

\* C36: after any sequence of start() and stop() calls at most one fast-poll loop
\* and at most one slow-poll loop are alive: no loop of an earlier run lives on
\* beside the loop of the new run.
C36_OneLoopEach == loops.price_update <= 1 /\ loops.ohlc_update <= 1

\* C37: a client session that has disconnected (it is not in the group connect
\* joined) is a member of no group: it has left every per-symbol group too.
C37_LeftEveryGroup ==
    \A s \in Sessions :
        s \notin groups[RoomGroup] => \A g \in DOMAIN groups : s \notin groups[g]

\* C39: a price_update is broadcast for a tick only if the tick was applied to the
\* stored snapshot of its symbol: the update broadcast last is for a symbol that
\* has a Stock row.
C39_BroadcastOnlyApplied ==
    published.symbol # "none" => published.symbol \in Symbols

\* C40: a poll-sourced price update changes only the price and the last-update
\* time of the symbol's snapshot: day change, percent change and volume stay
\* as the feed reported them last.
C40_PollKeepsFeedFields ==
    [][last_update'.source = "poll"
          => \A s \in Symbols :
                /\ stocks'[s].day_change = stocks[s].day_change
                /\ stocks'[s].day_change_percent = stocks[s].day_change_percent
                /\ stocks'[s].volume = stocks[s].volume]_vars

\* C38: whenever a client session is sent subscription_confirmed for a symbol, the
\* symbol is in the feed service's set of subscribed symbols (a subscribe request
\* for it was sent upstream).
C38_ConfirmedIsSubscribed ==
    [][\A s \in Sessions :
          \A symbol \in confirmations'[s] \ confirmations[s] :
              symbol \in subscribed_symbols']_vars

\* C35: the cash balance of the portfolio is never negative in any reachable
\* state, for every sequence and interleaving of buys and sells on it.
C35_CashNeverNegative == cash_balance >= 0

\* RetryLimit: the subscribe messages _retry_subscription prepares for one symbol
RetryLimit == 3

(* C31: while the cooldown of a rate-limit notice lasts, no subscribe and no
   heartbeat message is sent on the feed connection *)
C31_SilentDuringCooldown == client.cooldown => client.during_cooldown = {}

(* C32: the number of subscribe retries sent in answer to failure
   acknowledgements stays within a fixed limit, however many arrive *)
C32_RetriesBounded == client.retries <= RetryLimit

\* the last call of subscribe_symbol / unsubscribe_symbol of the TwelveData
\* service kept to the frame: nothing happens off an open connection, and an
\* unsubscribe on an open connection goes out and drops the symbol
CallFrame ==
    /\ client.call.op # "none" /\ ~client.call.open
           => ~client.call.sent /\ client.call.after = client.call.before
    /\ client.call.op = "unsubscribe" /\ client.call.open
           => client.call.sent /\ client.call.symbol \notin client.call.after

(* C33: subscribe and unsubscribe called while the feed is not connected send no
   control message and leave the subscription sets as they are (both services);
   unsubscribe called while connected sends the message and removes the symbol
   from the confirmed set *)
C33_SubscribeFrame ==
    /\ []CallFrame
    /\ [][confirmations' # confirmations /\ ~connected
             => subscribed_symbols' = subscribed_symbols /\ sockets' = sockets]_vars

C33_Witness ==
    /\ client.call.op = "unsubscribe" /\ client.call.open
    /\ client.call.symbol \in client.call.before
    /\ "NFLX" \in confirmations["s1"] /\ "NFLX" \notin subscribed_symbols

\* the frame is no JSON object, or its event is none of those on_message knows
Unrecognized(m) ==
    \/ m.wire # "object"
    \/ m.event \notin {"price", "status", "subscribe-status", "heartbeat",
                       "message-processing"}

(* C34: a frame that is not valid JSON, or whose event is not recognized, is
   ignored: connection state, subscription sets and stored prices stay as they
   are, and the connection thread is free for the next frame *)
C34_IgnoresUnrecognized ==
    [][client'.handled = client.handled + 1 /\ Unrecognized(client'.last_message)
          => /\ client'.connected = client.connected
             /\ client'.connection_thread = client.connection_thread
             /\ client'.subscribed_symbols = client.subscribed_symbols
             /\ client'.sent = client.sent
             /\ ~client'.cooldown
             /\ stocks' = stocks]_vars

C34_Witness ==
    /\ client.handled = MaxMessages
    /\ Unrecognized(client.last_message)
    /\ client.connected /\ client.connection_thread = "open"
    /\ client.subscribed_symbols # {}
    /\ last_update.source = "ws" /\ stocks["AAPL"].current_price = last_update.price

====
